---- MODULE Spec2Model ----
(***************************************************************************)
(* A model of jeopardy.js: the trivia board that fetches categories from a *)
(* remote API, renders them in table#jeopardy and reveals clues on click.  *)
(*                                                                         *)
(* The browser runs one task at a time.  Every action below is one task:   *)
(* an event handler, or the delivery of one HTTP response together with    *)
(* all the continuations (microtasks) that this delivery makes runnable.   *)
(* The click handler of the restart control is shown in two steps          *)
(* (showLoadingView, then setupAndStart up to its first await); mainPc     *)
(* keeps every other task out between the two.                             *)
(***************************************************************************)
EXTENDS Integers, Sequences, FiniteSets, TLC

(***************************************************************************)
(* Program constants and bounds of the model.                              *)
(***************************************************************************)
NUM_CATEGORIES == 6
NUM_CLUES_PER_CAT == 5

\* Restart clicks in one behaviour of Spec.
MaxGames == 2
\* Seeds of the random source that _.sampleSize draws from: 0..MaxSeed.
MaxSeed == 1
\* Direct calls of handleClick in one behaviour of SpecUnit or SpecPlay.
MaxHandled == 3
\* Restart clicks in one behaviour of SpecPlay or SpecLive.
MaxUnitGames == 1

VARIABLES
    categories,       \* the module-level list `categories`
    table,            \* table#jeopardy: header rows and bodies
    loadingSpinner,   \* .loading-spinner: its style.display
    fetchDataButton,  \* #fetch-data-button: disabled, textContent
    run,              \* the asynchronous run started by each restart click
    games,            \* restart clicks so far
    mainPc,           \* position inside the restart click handler
    domLoaded,        \* DOMContentLoaded has fired
    listeners,        \* cells that carry the click listener
    clickLog,         \* history: the cell clicked last
    handled,          \* history: direct calls of handleClick so far
    lastCall          \* history: the loading-view function called last

vars == <<categories, table, loadingSpinner, fetchDataButton, run, games,
          mainPc, domLoaded, listeners, clickLog, handled, lastCall>>

(***************************************************************************)
(* Texts.  Every text of the model is a record of one shape, so that any   *)
(* two texts can be compared.                                              *)
(***************************************************************************)
Text(k, c, n) == [k |-> k, c |-> c, n |-> n]
Placeholder == Text("?", 0, 0)
NoText == Text("", 0, 0)
TitleOf(id) == Text("title", id, 0)
QuestionOf(id, n) == Text("question", id, n)
AnswerOf(id, n) == Text("answer", id, n)

\* The values of clue.showing.
Null == "null"
ShowingStates == {Null, "question", "answer"}

(***************************************************************************)
(* The remote API.  GET categories?count=100 answers with a pool of        *)
(* categories, of which the program reads the ids; GET categories/id/clues *)
(* answers with the category's title and clues.  The service decides how   *)
(* many ids a pool has, whether they repeat, and how many clues a category *)
(* has.                                                                    *)
(***************************************************************************)
PoolFull == <<1, 2, 3, 4, 5, 6, 7, 8>>
PoolShort == <<1, 2>>
PoolDup == <<4, 4>>
PoolEmpty == <<>>
Pools == {PoolFull, PoolShort, PoolDup, PoolEmpty}

ClueCount(id) == IF id = 7 THEN 3 ELSE IF id = 8 THEN 7 ELSE 5

\* The service's record of category 3 has no title: reading it gives
\* undefined, which a cell shows as no text.
HasTitle(id) == id # 3

CategoryData(id) ==
    [title |-> IF HasTitle(id) THEN TitleOf(id) ELSE NoText,
     clues |-> [n \in 1..ClueCount(id) |->
                   [question |-> QuestionOf(id, n), answer |-> AnswerOf(id, n)]]]

\* How a request ends: a response of the expected shape, a transport error,
\* or a response of another shape (no array of categories, no clue list).
Outcomes == {"ok", "error", "malformed"}

(***************************************************************************)
(* _.sampleSize(array, n): lodash copies the array, clamps n to its length *)
(* and runs shuffleSelf, which for index = 0 .. size-1 swaps the element   *)
(* at index with the one at a random position in index .. lastIndex.       *)
(* Positions are 1-based here.  The random source is a function of a seed. *)
(***************************************************************************)
Seeds == 0..MaxSeed

BaseRandom(lower, upper, seed) ==
    lower + ((seed * lower) % (upper - lower + 1))

Swap(array, i, j) ==
    [array EXCEPT ![i] = array[j], ![j] = array[i]]

\* A sampler that draws every element from the whole array and swaps nothing:
\* sampling with replacement.
ShuffleSelfWithReplacement(array, size, index, seed) ==
    [i \in index..size |-> array[BaseRandom(i, Len(array), seed)]]

RECURSIVE ShuffleSelf(_, _, _, _)
ShuffleSelf(array, size, index, seed) ==
    IF index > size
    THEN SubSeq(array, 1, size)
    ELSE ShuffleSelf(Swap(array, index, BaseRandom(index, Len(array), seed)),
                     size, index + 1, seed)

Clamp(n, lower, upper) == IF n < lower THEN lower ELSE IF n > upper THEN upper ELSE n

SampleSize(array, n, seed) ==
    ShuffleSelf(array, Clamp(n, 0, Len(array)), 1, seed)

\* getCategoryIds, after the response: the ids of the pool, sampled.
GetCategoryIds(pool, seed) == SampleSize(pool, NUM_CATEGORIES, seed)

(***************************************************************************)
(* getCategory, after the response: title and clues, every clue hidden.    *)
(***************************************************************************)
MakeClue(clue) ==
    [question |-> clue.question, answer |-> clue.answer, showing |-> Null]

GetCategory(categoryData) ==
    [title |-> categoryData.title,
     clues |-> [n \in 1..Len(categoryData.clues) |-> MakeClue(categoryData.clues[n])]]

WrappedError == "Failed to retrieve category data"
NoCategory == [title |-> NoText, clues |-> <<>>]

(***************************************************************************)
(* The table.  head is the sequence of rows of the <thead> (no <thead>     *)
(* when empty); bodies is the sequence of <tbody>s, each a sequence of     *)
(* rows of cells.  A cell has its textContent, its class and its `clue`    *)
(* property (NoClue when the property was never set).                      *)
(***************************************************************************)
EmptyTable == [head |-> <<>>, bodies |-> <<>>]
NoClue == <<>>

BodyCell == [text |-> Placeholder, cls |-> "", clue |-> NoClue]

\* A header row with the titles in reverse order.
HeaderRowReversed(cats) == [c \in 1..Len(cats) |-> cats[Len(cats) + 1 - c].title]

HeaderRow(cats) == [c \in 1..Len(cats) |-> cats[c].title]

\* Body rows that leave out the cell of the last category.
BodyRowsShort(cats) ==
    [r \in 1..NUM_CLUES_PER_CAT |-> [c \in 1..(Len(cats) - 1) |-> BodyCell]]

BodyRows(cats) ==
    [r \in 1..NUM_CLUES_PER_CAT |-> [c \in 1..Len(cats) |-> BodyCell]]

\* fillTable after the join: createTHead returns the <thead> that is
\* there or makes one, insertRow appends a row; createTBody always adds a
\* new <tbody>.
RenderBoard(t, cats) ==
    [head |-> Append(t.head, HeaderRow(cats)),
     bodies |-> Append(t.bodies, BodyRows(cats))]

Cells(t) ==
    {cell \in [b : 1..Len(t.bodies), r : 1..NUM_CLUES_PER_CAT,
               c : 1..NUM_CATEGORIES] :
        cell.c <= Len(t.bodies[cell.b][cell.r])}

CellAt(t, cell) == t.bodies[cell.b][cell.r][cell.c]

\* document.querySelectorAll('.clue')
ClueElements(t) == {cell \in Cells(t) : CellAt(t, cell).cls = "clue"}

(***************************************************************************)
(* handleClick(evt).  clueElement = evt.target, clue = clueElement.clue;   *)
(* reading .clue of undefined, or .showing of undefined, throws a          *)
(* TypeError and the handler changes nothing.                              *)
(***************************************************************************)
NoCell == [b |-> 0, r |-> 0, c |-> 0]
Undefined == NoCell
NoClick == [target |-> NoCell]

\* A handler that lets a click on an answer go back to the question.
NextShowingCycles(showing) ==
    IF showing = Null THEN "question"
    ELSE IF showing = "question" THEN "answer"
    ELSE "question"

\* The value handleClick leaves in clue.showing.
NextShowing(showing) ==
    IF showing = Null THEN "question"
    ELSE IF showing = "question" THEN "answer"
    ELSE showing

\* The value handleClick leaves in clueElement.textContent.
NextText(clue, textContent) ==
    IF clue.showing = Null THEN clue.question
    ELSE IF clue.showing = "question" THEN clue.answer
    ELSE textContent

\* The clue record a cell's `clue` property refers to: <<column, row>>.
ClueOf(cats, ref) == cats[ref[1]].clues[ref[2]]

HandleClickThrows(target) ==
    \/ target = Undefined
    \/ CellAt(table, target).clue = NoClue

\* A handler that writes the showing state of every clue of the category.
HandleClickWholeCategory(target) ==
    IF HandleClickThrows(target)
    THEN UNCHANGED <<categories, table>>
    ELSE LET ref == CellAt(table, target).clue
             clue == ClueOf(categories, ref)
             text == CellAt(table, target).text
         IN /\ table' = [table EXCEPT
                   !.bodies[target.b][target.r][target.c].text = NextText(clue, text)]
            /\ categories' = [categories EXCEPT
                   ![ref[1]].clues = [n \in 1..Len(@) |->
                       [@[n] EXCEPT !.showing = NextShowing(clue.showing)]]]

HandleClick(target) ==
    IF HandleClickThrows(target)
    THEN UNCHANGED <<categories, table>>
    ELSE LET ref == CellAt(table, target).clue
             clue == ClueOf(categories, ref)
             text == CellAt(table, target).text
         IN /\ table' = [table EXCEPT
                   !.bodies[target.b][target.r][target.c].text = NextText(clue, text)]
            /\ categories' = [categories EXCEPT
                   ![ref[1]].clues[ref[2]].showing = NextShowing(clue.showing)]

\* The listener that addClueClickHandler registers calls handleClick(this):
\* evt is the element itself, and an element has no `target`.
ListenerCallback(this) == HandleClick(Undefined)

LogClick(cell) == [target |-> cell]

(***************************************************************************)
(* showLoadingView and hideLoadingView.                                    *)
(***************************************************************************)
ShownView == [display |-> "block", disabled |-> TRUE, textContent |-> "Loading..."]
HiddenView == [display |-> "none", disabled |-> FALSE, textContent |-> "Fetch Data"]

View == [display |-> loadingSpinner.display,
         disabled |-> fetchDataButton.disabled,
         textContent |-> fetchDataButton.textContent]

\* jeopardyTable.innerHTML = '' removes the rows and with them their cells,
\* so the listeners and the click history of those cells go too.
ShowLoadingView ==
    /\ table' = EmptyTable
    /\ loadingSpinner' = [display |-> ShownView.display]
    /\ fetchDataButton' = [disabled |-> ShownView.disabled,
                           textContent |-> ShownView.textContent]
    /\ listeners' = {}
    /\ clickLog' = NoClick
    /\ lastCall' = "showLoadingView"

\* A hideLoadingView that restores the label and leaves the button disabled.
HideLoadingViewKeepsDisabled ==
    /\ loadingSpinner' = [display |-> HiddenView.display]
    /\ fetchDataButton' = [disabled |-> fetchDataButton.disabled,
                           textContent |-> HiddenView.textContent]
    /\ lastCall' = "hideLoadingView"

HideLoadingView ==
    /\ loadingSpinner' = [display |-> HiddenView.display]
    /\ fetchDataButton' = [disabled |-> HiddenView.disabled,
                           textContent |-> HiddenView.textContent]
    /\ lastCall' = "hideLoadingView"

(***************************************************************************)
(* The asynchronous runs.  run[g] is the run of setupAndStart started by   *)
(* the g-th restart click, and of the fillTable it calls.  pc is the await *)
(* the run is suspended at; pending are the positions of catIds whose      *)
(* request has no response yet; results are the values of the fulfilled    *)
(* getCategory promises, in request order as Promise.all keeps them;       *)
(* error is what the catch of the run has logged; idRequests counts the    *)
(* calls of getCategoryIds the run has made.                               *)
(***************************************************************************)
NoRun == [pc |-> "none", pool |-> <<>>, catIds |-> <<>>, pending |-> {},
          results |-> <<>>, error |-> "", idRequests |-> 0]

AwaitingIds == {"setupAndStart:ids", "fillTable:ids"}
AwaitingCategories == {"setupAndStart:categories", "fillTable:categories"}

\* A join that does not wait for the last response.
JoinReadyBeforeLast(pending) == Cardinality(pending) <= 1

\* Promise.all is fulfilled when every promise is.
JoinReady(pending) == pending = {}

\* A fillTable that pushes the loaded categories onto the list it finds.
JoinedKeepsList(g, r) ==
    IF r.pc = "setupAndStart:categories"
    THEN /\ run' = [run EXCEPT ![g] = [NoRun EXCEPT
                                          !.pc = "fillTable:ids",
                                          !.idRequests = r.idRequests + 1]]
         /\ UNCHANGED <<categories, table>>
    ELSE /\ categories' = categories \o r.results
         /\ table' = RenderBoard(table, r.results)
         /\ run' = [run EXCEPT ![g] = [r EXCEPT !.pc = "rendered"]]

\* A setupAndStart that ends after its join and never calls fillTable.
JoinedWithoutFill(g, r) ==
    IF r.pc = "setupAndStart:categories"
    THEN /\ run' = [run EXCEPT ![g] = [r EXCEPT !.pc = "loaded"]]
         /\ UNCHANGED <<categories, table>>
    ELSE /\ categories' = r.results
         /\ table' = RenderBoard(table, r.results)
         /\ run' = [run EXCEPT ![g] = [r EXCEPT !.pc = "rendered"]]

\* What follows the join.  In setupAndStart: fillTable(categories) is
\* called; it ignores its argument and requests a pool of ids again.  In
\* fillTable: the module-level list is assigned and the board is built.
Joined(g, r) ==
    IF r.pc = "setupAndStart:categories"
    THEN /\ run' = [run EXCEPT ![g] = [NoRun EXCEPT
                                          !.pc = "fillTable:ids",
                                          !.idRequests = r.idRequests + 1]]
         /\ UNCHANGED <<categories, table>>
    ELSE /\ categories' = r.results
         /\ table' = RenderBoard(table, r.results)
         /\ run' = [run EXCEPT ![g] = [r EXCEPT !.pc = "rendered"]]

Init ==
    /\ categories = <<>>
    /\ table = EmptyTable
    /\ loadingSpinner = [display |-> ""]
    /\ fetchDataButton = [disabled |-> FALSE, textContent |-> ""]
    /\ run = [g \in 1..MaxGames |-> NoRun]
    /\ games = 0
    /\ mainPc = "idle"
    /\ domLoaded = FALSE
    /\ listeners = {}
    /\ clickLog = NoClick
    /\ handled = 0
    /\ lastCall = "none"

\* document 'DOMContentLoaded': addClueClickHandler.  The event follows the
\* evaluation of the script and comes before the clicks and the responses.
DomContentLoaded ==
    /\ mainPc = "idle"
    /\ ~domLoaded
    /\ domLoaded' = TRUE
    /\ listeners' = listeners \cup ClueElements(table)
    /\ UNCHANGED <<categories, table, loadingSpinner, fetchDataButton, run,
                   games, mainPc, clickLog, handled, lastCall>>

\* #restart 'click': startGame, first statement.
StartGame(limit) ==
    /\ mainPc = "idle"
    /\ domLoaded
    /\ games < limit
    /\ ShowLoadingView
    /\ games' = games + 1
    /\ mainPc' = "setupAndStart"
    /\ UNCHANGED <<categories, run, domLoaded, handled>>

\* startGame, second statement: setupAndStart up to its first await.
SetupAndStart ==
    /\ mainPc = "setupAndStart"
    /\ HideLoadingView
    /\ run' = [run EXCEPT ![games] = [NoRun EXCEPT !.pc = "setupAndStart:ids",
                                                  !.idRequests = 1]]
    /\ mainPc' = "idle"
    /\ UNCHANGED <<categories, table, games, domLoaded, listeners, clickLog,
                   handled>>

\* The id request of run g is answered with a pool.
IdsOk(g, pool, seed) ==
    /\ mainPc = "idle"
    /\ run[g].pc \in AwaitingIds
    /\ LET ids == GetCategoryIds(pool, seed)
           r == [pc |-> IF run[g].pc = "setupAndStart:ids"
                        THEN "setupAndStart:categories"
                        ELSE "fillTable:categories",
                 pool |-> pool,
                 catIds |-> ids,
                 pending |-> 1..Len(ids),
                 results |-> [i \in 1..Len(ids) |-> NoCategory],
                 error |-> "",
                 idRequests |-> run[g].idRequests]
       IN IF JoinReady(r.pending)
          THEN Joined(g, r)
          ELSE /\ run' = [run EXCEPT ![g] = r]
               /\ UNCHANGED <<categories, table>>
    /\ UNCHANGED <<loadingSpinner, fetchDataButton, games, mainPc, domLoaded,
                   listeners, clickLog, handled, lastCall>>

\* A catch that logs and asks for the ids again.
IdsFailRetries(g, outcome) ==
    /\ mainPc = "idle"
    /\ run[g].pc \in AwaitingIds
    /\ outcome # "ok"
    /\ run[g].idRequests <= 2
    /\ run' = [run EXCEPT ![g] = [@ EXCEPT !.error = outcome,
                                           !.idRequests = @ + 1]]
    /\ UNCHANGED <<categories, table, loadingSpinner, fetchDataButton, games,
                   mainPc, domLoaded, listeners, clickLog, handled, lastCall>>

\* The id request of run g fails, or its response is no array: the
\* rejection reaches the catch of setupAndStart or fillTable, which logs.
IdsFail(g, outcome) ==
    /\ mainPc = "idle"
    /\ run[g].pc \in AwaitingIds
    /\ outcome # "ok"
    /\ run' = [run EXCEPT ![g] = [NoRun EXCEPT !.pc = "failed",
                                               !.error = outcome,
                                               !.idRequests = run[g].idRequests]]
    /\ UNCHANGED <<categories, table, loadingSpinner, fetchDataButton, games,
                   mainPc, domLoaded, listeners, clickLog, handled, lastCall>>

\* The request for catIds[i] of run g is answered with the category.
CategoryOk(g, i) ==
    /\ mainPc = "idle"
    /\ run[g].pc \in AwaitingCategories
    /\ i \in run[g].pending
    /\ LET r == [run[g] EXCEPT
                    !.pending = @ \ {i},
                    !.results[i] = GetCategory(CategoryData(run[g].catIds[i]))]
       IN IF JoinReady(r.pending)
          THEN Joined(g, r)
          ELSE /\ run' = [run EXCEPT ![g] = r]
               /\ UNCHANGED <<categories, table>>
    /\ UNCHANGED <<loadingSpinner, fetchDataButton, games, mainPc, domLoaded,
                   listeners, clickLog, handled, lastCall>>

\* A join that logs the failure of a request and goes on with the others.
CategoryFailSettles(g, i, outcome) ==
    /\ mainPc = "idle"
    /\ run[g].pc \in AwaitingCategories
    /\ i \in run[g].pending
    /\ outcome # "ok"
    /\ LET r == [run[g] EXCEPT !.pending = @ \ {i}, !.error = WrappedError]
       IN IF JoinReady(r.pending)
          THEN Joined(g, r)
          ELSE /\ run' = [run EXCEPT ![g] = r]
               /\ UNCHANGED <<categories, table>>
    /\ UNCHANGED <<loadingSpinner, fetchDataButton, games, mainPc, domLoaded,
                   listeners, clickLog, handled, lastCall>>

\* The request for catIds[i] of run g fails or has no clue list: getCategory
\* throws its own error, Promise.all rejects at once, the catch logs.  The
\* values of the fulfilled promises are dropped with the rejected join; the
\* other requests stay outstanding.
CategoryFail(g, i, outcome) ==
    /\ mainPc = "idle"
    /\ run[g].pc \in AwaitingCategories
    /\ i \in run[g].pending
    /\ outcome # "ok"
    /\ run' = [run EXCEPT ![g] = [NoRun EXCEPT !.pc = "failed",
                                               !.pending = run[g].pending \ {i},
                                               !.error = WrappedError,
                                               !.idRequests = run[g].idRequests]]
    /\ UNCHANGED <<categories, table, loadingSpinner, fetchDataButton, games,
                   mainPc, domLoaded, listeners, clickLog, handled, lastCall>>

\* A response to a request of a run whose join was already rejected: the
\* promise it settles has no consumer left.
CategoryLate(g, i) ==
    /\ mainPc = "idle"
    /\ run[g].pc = "failed"
    /\ i \in run[g].pending
    /\ run' = [run EXCEPT ![g].pending = @ \ {i}]
    /\ UNCHANGED <<categories, table, loadingSpinner, fetchDataButton, games,
                   mainPc, domLoaded, listeners, clickLog, handled, lastCall>>

\* The user clicks a body cell of the table.
UserClickCell(cell) ==
    /\ mainPc = "idle"
    /\ cell \in Cells(table)
    /\ IF cell \in listeners
       THEN ListenerCallback(cell)
       ELSE UNCHANGED <<categories, table>>
    /\ clickLog' = LogClick(cell)
    /\ UNCHANGED <<loadingSpinner, fetchDataButton, run, games, mainPc,
                   domLoaded, listeners, handled, lastCall>>

Next ==
    \/ DomContentLoaded
    \/ StartGame(MaxGames)
    \/ SetupAndStart
    \/ \E g \in 1..MaxGames, pool \in Pools, seed \in Seeds : IdsOk(g, pool, seed)
    \/ \E g \in 1..MaxGames, outcome \in Outcomes : IdsFail(g, outcome)
    \/ \E g \in 1..MaxGames, i \in 1..NUM_CATEGORIES : CategoryOk(g, i)
    \/ \E g \in 1..MaxGames, i \in 1..NUM_CATEGORIES, outcome \in Outcomes :
           CategoryFail(g, i, outcome)
    \/ \E g \in 1..MaxGames, i \in 1..NUM_CATEGORIES : CategoryLate(g, i)
    \/ \E cell \in Cells(table) : UserClickCell(cell)

Spec == Init /\ [][Next]_vars

(***************************************************************************)
(* The handlers on their own.  SpecUnit calls handleClick, showLoadingView *)
(* and hideLoadingView directly, in any order, on a page whose board has   *)
(* the markup handleClick is written for: every body cell has the class    *)
(* "clue" and a `clue` property that refers to the clue of its column and  *)
(* row (no property where the category has no clue for the row).           *)
(***************************************************************************)
Fixtures == {<<1, 2>>, <<7>>}

LoadAll(ids) == [i \in 1..Len(ids) |-> GetCategory(CategoryData(ids[i]))]

FixtureCell(cats, r, c) ==
    [text |-> Placeholder,
     cls |-> "clue",
     clue |-> IF r <= Len(cats[c].clues) THEN <<c, r>> ELSE NoClue]

FixtureBoard(cats) ==
    [head |-> <<HeaderRow(cats)>>,
     bodies |-> <<[r \in 1..NUM_CLUES_PER_CAT |->
                     [c \in 1..Len(cats) |-> FixtureCell(cats, r, c)]]>>]

InitUnit ==
    /\ \E ids \in Fixtures :
          /\ categories = LoadAll(ids)
          /\ table = FixtureBoard(LoadAll(ids))
    /\ loadingSpinner = [display |-> ""]
    /\ fetchDataButton = [disabled |-> FALSE, textContent |-> ""]
    /\ run = [g \in 1..MaxGames |-> NoRun]
    /\ games = 0
    /\ mainPc = "idle"
    /\ domLoaded = FALSE
    /\ listeners = {}
    /\ clickLog = NoClick
    /\ handled = 0
    /\ lastCall = "none"

\* handleClick(evt) with evt.target = cell.
HandleClickCall(cell) ==
    /\ handled < MaxHandled
    /\ cell \in Cells(table)
    /\ HandleClick(cell)
    /\ clickLog' = LogClick(cell)
    /\ handled' = handled + 1
    /\ UNCHANGED <<loadingSpinner, fetchDataButton, run, games, mainPc,
                   domLoaded, listeners, lastCall>>

ShowLoadingViewCall ==
    /\ ShowLoadingView
    /\ UNCHANGED <<categories, run, games, mainPc, domLoaded, handled>>

HideLoadingViewCall ==
    /\ HideLoadingView
    /\ UNCHANGED <<categories, table, run, games, mainPc, domLoaded, listeners,
                   clickLog, handled>>

NextUnit ==
    \/ DomContentLoaded
    \/ \E cell \in Cells(table) : HandleClickCall(cell)
    \/ \E cell \in Cells(table) : UserClickCell(cell)
    \/ ShowLoadingViewCall
    \/ HideLoadingViewCall

SpecUnit == InitUnit /\ [][NextUnit]_vars

(***************************************************************************)
(* SpecPlay: the same page with clues revealed by direct calls of          *)
(* handleClick, on which the program then runs a game.                     *)
(***************************************************************************)
NextPlay ==
    \/ DomContentLoaded
    \/ StartGame(MaxUnitGames)
    \/ SetupAndStart
    \/ \E g \in 1..MaxUnitGames, pool \in Pools, seed \in Seeds : IdsOk(g, pool, seed)
    \/ \E g \in 1..MaxUnitGames, outcome \in Outcomes : IdsFail(g, outcome)
    \/ \E g \in 1..MaxUnitGames, i \in 1..NUM_CATEGORIES : CategoryOk(g, i)
    \/ \E g \in 1..MaxUnitGames, i \in 1..NUM_CATEGORIES, outcome \in Outcomes :
           CategoryFail(g, i, outcome)
    \/ \E g \in 1..MaxUnitGames, i \in 1..NUM_CATEGORIES : CategoryLate(g, i)
    \/ \E cell \in Cells(table) : UserClickCell(cell)
    \/ \E cell \in Cells(table) : HandleClickCall(cell)

SpecPlay == InitUnit /\ [][NextPlay]_vars

(***************************************************************************)
(* SpecLive: the program when every request is answered, and answered      *)
(* with a response of the expected shape.  The second statement of         *)
(* startGame follows the first in the same task; that every request gets   *)
(* its response is the assumption under which the program is looked at.    *)
(***************************************************************************)
NextLive ==
    \/ DomContentLoaded
    \/ StartGame(MaxUnitGames)
    \/ SetupAndStart
    \/ \E g \in 1..MaxUnitGames, pool \in Pools, seed \in Seeds : IdsOk(g, pool, seed)
    \/ \E g \in 1..MaxUnitGames, i \in 1..NUM_CATEGORIES : CategoryOk(g, i)
    \/ \E cell \in Cells(table) : UserClickCell(cell)

Responds(g) ==
    \/ \E pool \in Pools, seed \in Seeds : IdsOk(g, pool, seed)
    \/ \E i \in 1..NUM_CATEGORIES : CategoryOk(g, i)

SpecLive ==
    /\ Init
    /\ [][NextLive]_vars
    /\ WF_vars(SetupAndStart)
    /\ \A g \in 1..MaxUnitGames : WF_vars(Responds(g))

(***************************************************************************)
(* Properties.                                                             *)
(***************************************************************************)
Distinct(seq) == \A i, j \in 1..Len(seq) : i # j => seq[i] # seq[j]

Rank(showing) ==
    IF showing = Null THEN 0 ELSE IF showing = "question" THEN 1 ELSE 2

ClueRefs(cats) ==
    UNION {{<<c, n>> : n \in 1..Len(cats[c].clues)} : c \in 1..Len(cats)}

\* This step is a call handleClick(evt) with evt.target = cell.
HandledOn(cell) == handled' = handled + 1 /\ clickLog'.target = cell

\* C1.  Under the calls of handleClick a clue's showing state goes hidden,
\* question, answer and stays there: a handled click on the cell of a hidden
\* clue shows the question, on a question clue shows the answer, on an
\* answer clue changes neither the state nor the text, and no step of any
\* kind moves a clue's showing state backwards.
C1_ShowingSequence ==
    [][/\ \A cell \in Cells(table) :
            (HandledOn(cell) /\ CellAt(table, cell).clue # NoClue) =>
                LET ref == CellAt(table, cell).clue
                    old == ClueOf(categories, ref)
                    new == ClueOf(categories', ref)
                    oldText == CellAt(table, cell).text
                    newText == CellAt(table', cell).text
                IN /\ old.showing = Null =>
                        new.showing = "question" /\ newText = old.question
                   /\ old.showing = "question" =>
                        new.showing = "answer" /\ newText = old.answer
                   /\ old.showing = "answer" =>
                        new.showing = "answer" /\ newText = oldText
       /\ \A ref \in ClueRefs(categories) :
            Rank(ClueOf(categories', ref).showing)
                >= Rank(ClueOf(categories, ref).showing)
      ]_vars

\* Three calls of handleClick on one cell: its clue shows the answer, every
\* other clue is still hidden.
C1_Witness ==
    /\ handled = 3
    /\ Len(categories) = 2
    /\ clickLog.target \in Cells(table)
    /\ LET ref == CellAt(table, clickLog.target).clue
       IN /\ ClueOf(categories, ref).showing = "answer"
          /\ CellAt(table, clickLog.target).text = ClueOf(categories, ref).answer
          /\ \A other \in ClueRefs(categories) \ {ref} :
                ClueOf(categories, other).showing = Null

\* The table holds the board of one completed game and nothing else.
OneBoard == Len(table.head) = 1 /\ Len(table.bodies) = 1

\* This step is a user click on cell.
UserClickOn(cell) == handled' = handled /\ clickLog'.target = cell /\ clickLog' # clickLog

\* C2.  A user click on a body cell of a rendered board reaches the clue of
\* the cell (column c, row r): a click on a cell that shows "?" shows the
\* question, a click on a cell that shows the question shows the answer, and
\* a click on a cell that shows the answer leaves it.
C2_ClickReveals ==
    [][\A cell \in Cells(table) :
          (/\ OneBoard
           /\ UserClickOn(cell)
           /\ <<cell.c, cell.r>> \in ClueRefs(categories)) =>
              LET clue == ClueOf(categories, <<cell.c, cell.r>>)
                  oldText == CellAt(table, cell).text
                  newText == CellAt(table', cell).text
              IN /\ oldText = Placeholder => newText = clue.question
                 /\ oldText = clue.question => newText = clue.answer
                 /\ oldText = clue.answer => newText = clue.answer
      ]_vars

\* C3.  A rendered board has NUM_CATEGORIES categories, in the table and in
\* the list, and every category of the list has NUM_CLUES_PER_CAT clues.
C3_ConfiguredCounts ==
    table # EmptyTable =>
        /\ \A j \in 1..Len(table.head) : Len(table.head[j]) = NUM_CATEGORIES
        /\ Len(categories) = NUM_CATEGORIES
        /\ \A c \in 1..Len(categories) :
              Len(categories[c].clues) = NUM_CLUES_PER_CAT

\* C4 as stated.  Whatever the pool, the ids getCategoryIds returns are
\* pairwise distinct.
C4_DistinctIds ==
    \A g \in 1..MaxGames : Distinct(run[g].catIds)

\* C4 as amended.  When the ids of the pool are pairwise distinct, the ids
\* getCategoryIds returns are pairwise distinct, they are ids of the pool,
\* and there are NUM_CATEGORIES of them or as many as the pool has.
C4_DistinctIdsOfDistinctPool ==
    \A g \in 1..MaxGames :
        Distinct(run[g].pool) =>
            /\ Distinct(run[g].catIds)
            /\ \A i \in 1..Len(run[g].catIds) :
                  \E j \in 1..Len(run[g].pool) : run[g].catIds[i] = run[g].pool[j]
            /\ Len(run[g].catIds) = Clamp(NUM_CATEGORIES, 0, Len(run[g].pool))

\* A sample of NUM_CATEGORIES ids that is not the head of its pool.
C4_Witness ==
    \E g \in 1..MaxGames :
        /\ Distinct(run[g].pool)
        /\ Len(run[g].catIds) = NUM_CATEGORIES
        /\ run[g].catIds # SubSeq(run[g].pool, 1, NUM_CATEGORIES)

Rendered == {g \in 1..MaxGames : run[g].pc = "rendered"}
Failed == {g \in 1..MaxGames : run[g].pc = "failed"}

\* Every board in the table is whole: a header row and a body for each, the
\* body of NUM_CLUES_PER_CAT rows, each row with a cell for every header cell.
BoardsComplete(t) ==
    /\ Len(t.head) = Len(t.bodies)
    /\ \A j \in 1..Len(t.bodies) :
          /\ Len(t.bodies[j]) = NUM_CLUES_PER_CAT
          /\ \A r \in 1..Len(t.bodies[j]) :
                Len(t.bodies[j][r]) = Len(t.head[j])

\* C5.  Once a request of a game has failed, the table is empty or holds
\* whole boards only, the last of them with a header cell for every category
\* of the list, and a failed game has put no board there: there are no more
\* boards than games that rendered.
C5_NoPartialBoard ==
    Failed # {} =>
        \/ table = EmptyTable
        \/ /\ BoardsComplete(table)
           /\ Len(table.head[Len(table.head)]) = Len(categories)
           /\ Len(table.head) <= Cardinality(Rendered)

\* One game failed with requests of it still outstanding, another rendered.
C5_Witness ==
    /\ \E g \in Failed : run[g].pending # {}
    /\ Rendered # {}
    /\ table # EmptyTable
    /\ Len(categories) = NUM_CATEGORIES

\* Run g renders in this step.
Renders(g) == run[g].pc # "rendered" /\ run'[g].pc = "rendered"

\* C6.  When a game renders its board, the list is exactly what that game
\* loaded, one record for each id it sampled and in that order, with the
\* title and the clues of the response for that id, and every clue of the
\* list is hidden.
C6_ListReplacedWholesale ==
    [][\A g \in 1..MaxGames :
          Renders(g) =>
              /\ Len(categories') = Len(run'[g].catIds)
              /\ \A c \in 1..Len(categories') :
                    LET data == CategoryData(run'[g].catIds[c])
                    IN /\ categories'[c].title = data.title
                       /\ Len(categories'[c].clues) = Len(data.clues)
                       /\ \A n \in 1..Len(categories'[c].clues) :
                             /\ categories'[c].clues[n].question = data.clues[n].question
                             /\ categories'[c].clues[n].answer = data.clues[n].answer
                             /\ categories'[c].clues[n].showing = Null
      ]_vars

\* Two games have rendered, the second a list different from the first's.
C6_Witness ==
    /\ Rendered = 1..MaxGames
    /\ run[1].results # run[2].results
    /\ Len(run[1].results) = NUM_CATEGORIES
    /\ categories \in {run[1].results, run[2].results}

RowsOf(t) == Len(t.head) + Len(t.bodies)

\* C7.  A step that adds a row to the table or replaces the list is the step
\* of one run that had its id response, that receives in this step the last
\* response it waited for, and that is rendered after it; and a rendered run
\* has no request outstanding.
C7_RenderAfterJoin ==
    [][/\ (RowsOf(table') > RowsOf(table) \/ categories' # categories) =>
            \E g \in 1..MaxGames :
                /\ Renders(g)
                /\ run[g].pc \in {"fillTable:ids", "fillTable:categories"}
                /\ Cardinality(run[g].pending) <= 1
                /\ run'[g].pending = {}
                /\ \A h \in 1..MaxGames \ {g} : run'[h] = run[h]
       /\ \A g \in 1..MaxGames :
            (run'[g].pc \in AwaitingIds \/ run'[g].pending # {}) =>
                run'[g].pc # "rendered"
      ]_vars

\* A run waits for the last of NUM_CATEGORIES responses and the table is
\* still empty.
C7_Witness ==
    \E g \in 1..MaxGames :
        /\ run[g].pc = "fillTable:categories"
        /\ Len(run[g].catIds) = NUM_CATEGORIES
        /\ Cardinality(run[g].pending) = 1
        /\ table = EmptyTable

\* C8.  After a call of showLoadingView or hideLoadingView the spinner and
\* the button are in one of two configurations: after showLoadingView the
\* spinner is displayed, the button disabled and labelled "Loading...", and
\* the table is empty; after hideLoadingView the spinner is hidden, the
\* button enabled and labelled "Fetch Data".
C8_LoadingViewConsistent ==
    /\ lastCall # "none" => View \in {ShownView, HiddenView}
    /\ lastCall = "showLoadingView" => View = ShownView /\ table = EmptyTable
    /\ lastCall = "hideLoadingView" => View = HiddenView

\* hideLoadingView was called after showLoadingView.
C8_Witness ==
    /\ lastCall = "hideLoadingView"
    /\ table = EmptyTable
    /\ View = HiddenView

\* C9.  The table is empty or holds the board of the current list: one
\* header row with the titles of the list in order, and no more than
\* NUM_CLUES_PER_CAT body rows.
BodyRowCount(t, j) == IF j > Len(t.bodies) THEN 0 ELSE Len(t.bodies[j])

C9_TableIsCurrentBoard ==
    \/ table = EmptyTable
    \/ /\ Len(table.head) = 1
       /\ table.head[1] = HeaderRow(categories)
       /\ Len(table.bodies) <= 1
       /\ BodyRowCount(table, 1) <= NUM_CLUES_PER_CAT

\* C10.  Rendering into an empty table gives one header row with the titles
\* of the list in order, and one body of NUM_CLUES_PER_CAT rows, each with a
\* cell for every category that shows "?"; the run that renders ends
\* rendered, not failed.
C10_GridBuilder ==
    [][(table = EmptyTable /\ table' # EmptyTable) =>
          /\ Len(table'.head) = 1
          /\ Len(table'.head[1]) = Len(categories')
          /\ \A c \in 1..Len(categories') :
                table'.head[1][c] = categories'[c].title
          /\ Len(table'.bodies) = 1
          /\ Len(table'.bodies[1]) = NUM_CLUES_PER_CAT
          /\ \A r \in 1..Len(table'.bodies[1]) :
                /\ Len(table'.bodies[1][r]) = Len(categories')
                /\ \A c \in 1..Len(table'.bodies[1][r]) :
                      table'.bodies[1][r][c].text = Placeholder
          /\ \E g \in 1..MaxGames : Renders(g)
      ]_vars

\* A board of NUM_CATEGORIES categories rendered into an empty table.
C10_Witness ==
    /\ OneBoard
    /\ Len(table.head[1]) = NUM_CATEGORIES
    /\ Len(categories) = NUM_CATEGORIES
    /\ Cardinality(Rendered) = 1

Awaiting == AwaitingIds \cup AwaitingCategories

\* C14.  A restart click causes one id request: no run makes a second call
\* of getCategoryIds, and a run that has rendered has made exactly one, so
\* that the board is built from the categories setupAndStart loaded.
C14_OneLoadPerClick ==
    \A g \in 1..MaxGames :
        /\ run[g].idRequests <= 1
        /\ run[g].pc = "rendered" => run[g].idRequests = 1

\* C15.  While a request of a game is outstanding and the game has neither
\* rendered nor failed, the loading view is active: spinner displayed,
\* button disabled and labelled "Loading...".
C15_LoadingViewWhileLoading ==
    (\E g \in 1..MaxGames : run[g].pc \in Awaiting) => View = ShownView

\* A response of the shape {title, clues: [{question, answer}]}.
WellFormed(categoryData) ==
    /\ categoryData.title # NoText
    /\ \A n \in 1..Len(categoryData.clues) :
          /\ categoryData.clues[n].question # NoText
          /\ categoryData.clues[n].answer # NoText

\* The positions of catIds for which getCategory has returned a category.
Returned(g) ==
    IF run[g].pc \in AwaitingCategories \cup {"rendered"}
    THEN (1..Len(run[g].catIds)) \ run[g].pending
    ELSE {}

\* Failures surface as errors: a run that has logged an error has failed
\* and holds no category; the error of a failed id request is the request's
\* own, the error of a failed category request is getCategory's; the step
\* that fails leaves the list alone; a failed run stays failed.
FailuresSurface ==
    \A g \in 1..MaxGames :
        /\ run'[g].error # "" =>
              /\ run'[g].pc = "failed"
              /\ run'[g].results = <<>>
        /\ (run[g].pc \in AwaitingIds /\ run'[g].error # "") =>
              /\ run'[g].error \in Outcomes \ {"ok"}
              /\ categories' = categories
        /\ (run[g].pc \in AwaitingCategories /\ run'[g].error # "") =>
              /\ run'[g].error = WrappedError
              /\ categories' = categories
        /\ run[g].pc = "failed" => run'[g].pc = "failed"

\* C11 as stated.  Failures surface as errors, and getCategory returns a
\* category only for a response that is well formed.
C11_AnyMalformedFails ==
    [][/\ FailuresSurface
       /\ \A g \in 1..MaxGames : \A i \in Returned(g)' :
             WellFormed(CategoryData(run'[g].catIds[i]))
      ]_vars

\* C11 as amended.  Failures surface as errors: a failed id request, and a
\* category request that fails or whose response has no clue list, end
\* the run failed, with the error and without a category list.  (A
\* response that lacks only its title is returned as a category.)
C11_FailuresSurface == [][FailuresSurface]_vars

\* The join of a fillTable run failed with getCategory's error while
\* requests of it were still outstanding.
C11_Witness ==
    \E g \in 1..MaxGames :
        /\ run[g].pc = "failed"
        /\ run[g].error = WrappedError
        /\ run[g].idRequests = 2
        /\ Cardinality(run[g].pending) >= 2

\* C12.  The step in which a run logs a failure changes neither the list,
\* the table, the button nor the spinner, ends that run in its catch,
\* issues no request and touches no other run; and a failed run stays
\* failed and issues nothing.
C12_FailureOnlyLogs ==
    [][\A g \in 1..MaxGames :
          /\ (run[g].error = "" /\ run'[g].error # "") =>
                /\ UNCHANGED <<categories, table, fetchDataButton,
                               loadingSpinner, mainPc>>
                /\ run'[g].pc = "failed"
                /\ run'[g].idRequests = run[g].idRequests
                /\ run'[g].pending \subseteq run[g].pending
                /\ \A h \in 1..MaxGames \ {g} : run'[h] = run[h]
          /\ run[g].pc = "failed" =>
                /\ run'[g].pc = "failed"
                /\ run'[g].idRequests = run[g].idRequests
                /\ run'[g].pending \subseteq run[g].pending
      ]_vars

\* A game failed after another had rendered: the board and the list of the
\* other are still there.
C12_Witness ==
    /\ Failed # {}
    /\ Rendered # {}
    /\ OneBoard
    /\ Len(categories) = NUM_CATEGORIES
    /\ View = HiddenView

\* C13.  A call of handleClick changes the clue of the clicked cell and
\* the text of that cell and nothing else of the list or the table.  Every
\* other step leaves the list as it is, or is the rendering step of a run,
\* which replaces the list by the records that run loaded, all hidden, and
\* writes no record of the list it replaces.
C13_OnlyHandleClickWrites ==
    [][/\ \A cell \in Cells(table) :
            HandledOn(cell) =>
                /\ Len(categories') = Len(categories)
                /\ \A c \in 1..Len(categories) :
                      /\ categories'[c].title = categories[c].title
                      /\ Len(categories'[c].clues) = Len(categories[c].clues)
                /\ \A ref \in ClueRefs(categories) :
                      /\ ClueOf(categories', ref).question = ClueOf(categories, ref).question
                      /\ ClueOf(categories', ref).answer = ClueOf(categories, ref).answer
                      /\ ref # CellAt(table, cell).clue =>
                            ClueOf(categories', ref).showing
                                = ClueOf(categories, ref).showing
                /\ table'.head = table.head
                /\ Cells(table') = Cells(table)
                /\ \A other \in Cells(table) \ {cell} :
                      CellAt(table', other) = CellAt(table, other)
       /\ handled' = handled =>
            \/ categories' = categories
            \/ \E g \in 1..MaxGames :
                  /\ Renders(g)
                  /\ categories' = run'[g].results
                  /\ \A ref \in ClueRefs(categories') :
                        ClueOf(categories', ref).showing = Null
      ]_vars

\* A run waits for its categories while a clue of the list shows its answer
\* and another its question.
C13_Witness ==
    /\ \E g \in 1..MaxGames : run[g].pc = "fillTable:categories"
    /\ \E ref \in ClueRefs(categories) : ClueOf(categories, ref).showing = "answer"
    /\ \E ref \in ClueRefs(categories) : ClueOf(categories, ref).showing = "question"

\* Every game started has rendered, the table holds the board of the
\* list, and the loading view is hidden with the button enabled.
BoardShown ==
    /\ games >= 1
    /\ \A g \in 1..games : run[g].pc = "rendered"
    /\ table # EmptyTable
    /\ BoardsComplete(table)
    /\ table.head[Len(table.head)] = HeaderRow(categories)
    /\ View = HiddenView

\* C16.  When every request is answered successfully, a click on the
\* restart control leads to a state in which the table holds the rendered
\* board and the loading view is hidden with the button enabled.
C16_EventuallyBoard == (games >= 1) ~> BoardShown

\* The board of a game of NUM_CATEGORIES categories is shown.
C16_Witness ==
    /\ BoardShown
    /\ OneBoard
    /\ Len(categories) = NUM_CATEGORIES

====
